---------------------------- MODULE Spec2Model ----------------------------
(***************************************************************************)
(* A model of the Kings Properties scrapers (src/scraper.py,               *)
(* src/complete_scraper.py, src/comprehensive_scraper.py).                 *)
(*                                                                         *)
(* Two machines live in this module:                                       *)
(*   - the extraction of one listing node into a record (ExtractSpec):     *)
(*     a pure function of the node, computed on character sequences;       *)
(*   - a scraping run against a site (Spec, FairSpec): the page loop,      *)
(*     the settle protocol, the resolver, pagination and the session.      *)
(*                                                                         *)
(* Text is a sequence of one-character strings, so that strip, upper,      *)
(* lower, replace and the substring test `in` are computed, not assumed.   *)
(***************************************************************************)
EXTENDS Integers, Sequences, FiniteSets, TLC

(***************************************************************************)
(* Text helpers: Python's str methods used by the extraction code.         *)
(***************************************************************************)
LowerLetters == <<"a","b","c","d","e","f","g","h","i","j","k","l","m",
                  "n","o","p","q","r","s","t","u","v","w","x","y","z">>

UpperLetters == <<"A","B","C","D","E","F","G","H","I","J","K","L","M",
                  "N","O","P","Q","R","S","T","U","V","W","X","Y","Z">>

\* str.upper() on one character
UpperChar(c) ==
    IF \E i \in 1..26 : LowerLetters[i] = c
    THEN UpperLetters[CHOOSE i \in 1..26 : LowerLetters[i] = c]
    ELSE c

\* str.lower() on one character
LowerChar(c) ==
    IF \E i \in 1..26 : UpperLetters[i] = c
    THEN LowerLetters[CHOOSE i \in 1..26 : UpperLetters[i] = c]
    ELSE c

\* str.upper()
Upper(s) == [i \in 1..Len(s) |-> UpperChar(s[i])]

\* str.lower()
Lower(s) == [i \in 1..Len(s) |-> LowerChar(s[i])]

\* str.strip(): leading and trailing blanks removed
Strip(s) ==
    LET keep == {i \in 1..Len(s) : s[i] # " "}
    IN  IF keep = {} THEN <<>>
        ELSE SubSeq(s, CHOOSE i \in keep : \A j \in keep : i <= j,
                       CHOOSE i \in keep : \A j \in keep : j <= i)

\* str.replace(" ", "_")
ReplaceBlanks(s) == [i \in 1..Len(s) |-> IF s[i] = " " THEN "_" ELSE s[i]]

\* Python's `sub in s` on strings: sub occurs in s as a contiguous run
Contains(s, sub) ==
    \E i \in 0..(Len(s) - Len(sub)) : SubSeq(s, i + 1, i + Len(sub)) = sub

\* dict[k] = v
Put(d, k, v) == [x \in (DOMAIN d) \cup {k} |-> IF x = k THEN v ELSE d[x]]

\* the empty dict
EmptyDict == [x \in {} |-> <<>>]

\* The concatenation of a sequence of texts
RECURSIVE Concat(_)
Concat(ts) == IF ts = <<>> THEN <<>> ELSE Head(ts) \o Concat(Tail(ts))

\* All sequences over S of length at most n
SeqsUpTo(S, n) == UNION {[1..k -> S] : k \in 0..n}

(***************************************************************************)
(* String literals of the source.                                          *)
(***************************************************************************)
s_LEASE == <<"L","E","A","S","E">>
s_SALE == <<"S","A","L","E">>
s_BOTH == <<"B","O","T","H">>
s_Unknown == <<"U","n","k","n","o","w","n">>
s_sf == <<"s","f">>
s_available == <<"a","v","a","i","l","a","b","l","e">>
s_available_space == <<"a","v","a","i","l","a","b","l","e","_","s","p","a","c","e">>
s_call_agent == <<"c","a","l","l"," ","a","g","e","n","t">>
s_price == <<"p","r","i","c","e">>
s_spaces == <<"s","p","a","c","e","s">>
s_hash_of_spaces == <<"#","_","o","f","_","s","p","a","c","e","s">>
s_number_of_spaces == <<"n","u","m","b","e","r","_","o","f","_","s","p","a","c","e","s">>
s_bldg == <<"b","l","d","g">>
s_building_size == <<"b","u","i","l","d","i","n","g","_","s","i","z","e">>
s_property_type == <<"p","r","o","p","e","r","t","y","_","t","y","p","e">>
s_manufacturing == <<"m","a","n","u","f","a","c","t","u","r","i","n","g">>
s_office == <<"o","f","f","i","c","e">>
s_warehouse == <<"w","a","r","e","h","o","u","s","e">>
s_retail == <<"r","e","t","a","i","l">>
s_industrial == <<"i","n","d","u","s","t","r","i","a","l">>
s_dash == <<"-">>

\* the property-type vocabulary of the heuristic pass
PropertyTypeWords ==
    {s_manufacturing, s_office, s_warehouse, s_retail, s_industrial}

(***************************************************************************)
(* A listing node, as the extraction code sees it.                         *)
(*   banner    : NoElement, or Found(text) of the .list-item-banner        *)
(*               element                                                   *)
(*   altBanner : NoElement, or Found(text) of an element that matches only *)
(*               the wider banner selectors of complete_scraper.py         *)
(*   table     : NoElement, or Found(rows) of table.mt-2, each row the     *)
(*               sequence of its cells' texts                              *)
(*   secondary : the texts of the .secondary-information elements, in      *)
(*               document order                                            *)
(*   anchor    : NoElement, or Found(href) of the node's first <a>         *)
(*   title     : NoElement, or Found(text) of the first element a title    *)
(*               selector matches                                          *)
(*   failing   : the section of the extraction whose browser calls raise a *)
(*               WebDriverException other than NoSuchElementException      *)
(*               (a stale or detached node), "none" when none does         *)
(***************************************************************************)
\* find_element raised NoSuchElementException
NoElement == <<>>

\* find_element returned an element with this content
Found(x) == <<x>>

\* the content of a found element
ContentOf(e) == e[1]

(***************************************************************************)
(* scraper.py, extract_property_details: listing type and flags.           *)
(***************************************************************************)
\* listing_type: the banner's text stripped and uppercased, "Unknown" without banner
listing_type_of(node) ==
    IF node.banner = NoElement THEN s_Unknown
    ELSE Upper(Strip(ContentOf(node.banner)))

\* the flags without lines 364-366 (the combined state)
type_flags_keywords(node) ==
    LET lt == listing_type_of(node)
    IN  [for_lease |-> Contains(lt, s_LEASE),
         for_sale  |-> Contains(lt, s_SALE)]

\* for_lease / for_sale as lines 360-366 assign them
type_flags(node) ==
    LET lt    == listing_type_of(node)
        lease == Contains(lt, s_LEASE)
        sale  == Contains(lt, s_SALE)
        both  == Contains(lt, s_BOTH) \/ (lease /\ sale)
    IN  [for_lease |-> IF both THEN TRUE ELSE lease,
         for_sale  |-> IF both THEN TRUE ELSE sale]

(***************************************************************************)
(* scraper.py, extract_property_details: the details table pass.           *)
(***************************************************************************)
\* key = cells[0].text.strip().lower().replace(" ", "_")
normalize_key(text) == ReplaceBlanks(Lower(Strip(text)))

\* one row: rows with fewer than two cells leave the dict alone
table_row(details, cells) ==
    IF Len(cells) >= 2
    THEN Put(details, normalize_key(cells[1]), Strip(cells[2]))
    ELSE details

RECURSIVE table_rows(_, _)
table_rows(details, rows) ==
    IF rows = <<>> THEN details
    ELSE table_rows(table_row(details, Head(rows)), Tail(rows))

\* property_details after the table pass (empty without a table)
table_pass(node) ==
    IF node.table = NoElement THEN EmptyDict
    ELSE table_rows(EmptyDict, ContentOf(node.table))

(***************************************************************************)
(* scraper.py, extract_property_details: secondary info and heuristics.    *)
(***************************************************************************)
\* secondary_info_text: stripped texts, "" and "-" dropped, order kept
secondary_info(node) ==
    LET stripped == [i \in 1..Len(node.secondary) |-> Strip(node.secondary[i])]
    IN  SelectSeq(stripped, LAMBDA t : t # <<>> /\ t # s_dash)

\* the if/elif chain applied to one fragment
heuristic_one(details, info) ==
    LET info_lower == Lower(info)
    IN  IF Contains(info_lower, s_sf) /\ s_available \notin DOMAIN details
        THEN Put(details, s_available_space, info)
        ELSE IF Contains(info_lower, s_call_agent) /\ s_price \notin DOMAIN details
        THEN Put(details, s_price, info)
        ELSE IF Contains(info_lower, s_spaces) /\ s_hash_of_spaces \notin DOMAIN details
        THEN Put(details, s_number_of_spaces, info)
        ELSE IF Contains(info_lower, s_bldg) /\ s_building_size \notin DOMAIN details
        THEN Put(details, s_building_size, info)
        ELSE IF info_lower \in PropertyTypeWords
        THEN Put(details, s_property_type, info)
        ELSE details

RECURSIVE heuristic_pass(_, _)
heuristic_pass(details, infos) ==
    IF infos = <<>> THEN details
    ELSE heuristic_pass(heuristic_one(details, Head(infos)), Tail(infos))

\* lines 394-406: the text of the first .secondary-information element when
\* it is not empty and does not start like a price or an availability
location_of(node) ==
    IF node.secondary = <<>> THEN s_Unknown
    ELSE LET location_text == Strip(node.secondary[1])
             \* str.startswith(prefix)
             StartsWith(s, prefix) ==
                 Len(s) >= Len(prefix) /\ SubSeq(s, 1, Len(prefix)) = prefix
         IN  IF /\ location_text # <<>>
                /\ ~StartsWith(location_text, <<"$">>)
                /\ ~StartsWith(location_text, <<"C", "a", "l", "l">>)
                /\ ~StartsWith(location_text, <<"A", "v", "a", "i", "l", "a",
                                                "b", "l", "e">>)
             THEN location_text
             ELSE s_Unknown

\* the sections of extract_property_details, in the order it runs them
Sections == <<"url", "image", "banner", "title", "location", "table", "secondary">>

\* the keys a section writes into property_data when none of its calls raises
\* (the fields modelled); a missing element gives the key its default
section_fields(node, s) ==
    CASE s = "url" -> [url |-> node.anchor]
      [] s = "banner" -> [listing_type |-> listing_type_of(node),
                          for_lease |-> type_flags(node).for_lease,
                          for_sale |-> type_flags(node).for_sale]
      [] s = "title" -> [title |-> IF node.title = NoElement THEN s_Unknown
                                   ELSE Strip(ContentOf(node.title))]
      [] s = "location" -> [location |-> location_of(node)]
      [] s = "secondary" -> [secondary_info |-> secondary_info(node)]
      [] OTHER -> EmptyDict

\* property_data after the sections i..n have run
RECURSIVE sections_through(_, _, _)
sections_through(node, i, n) ==
    IF i > n THEN EmptyDict
    ELSE section_fields(node, Sections[i]) @@ sections_through(node, i + 1, n)

\* an outer handler that starts the record afresh: property_data = {"error": ...}
extract_property_details_reset(node) ==
    IF node.failing \in {"none", "secondary"}
    THEN sections_through(node, 1, Len(Sections))
         @@ [details |-> heuristic_pass(table_pass(node), secondary_info(node))]
    ELSE [error |-> node.failing]

\* the record extract_property_details returns (the fields modelled).
\* Every section but the last catches NoSuchElementException only: any other
\* exception leaves the outer try at line 459, which records it under "error"
\* and returns what was written so far.  The last section catches Exception
\* (line 454): details is then what the table pass gave.
extract_property_details(node) ==
    LET failed_at == CHOOSE i \in 0..Len(Sections) :
                        \/ i = 0 /\ node.failing = "none"
                        \/ i > 0 /\ Sections[i] = node.failing
    IN  IF failed_at = 0
        THEN sections_through(node, 1, Len(Sections))
             @@ [details |-> heuristic_pass(table_pass(node), secondary_info(node))]
        ELSE IF failed_at = Len(Sections)
        THEN sections_through(node, 1, Len(Sections) - 1)
             @@ [details |-> table_pass(node)]
        ELSE sections_through(node, 1, failed_at - 1)
             @@ [error |-> node.failing]

(***************************************************************************)
(* complete_scraper.py, extract_property_data: for_lease / for_sale.       *)
(* The banner selectors are tried in order; a selector that finds nothing  *)
(* raises inside the inner try, whose bare except continues, so the outer  *)
(* except (the default for_lease = True) is never taken.                   *)
(***************************************************************************)
complete_type_flags(node) ==
    LET found == IF node.banner # NoElement THEN node.banner ELSE node.altBanner
    IN  IF found = NoElement
        THEN [for_lease |-> FALSE, for_sale |-> FALSE]
        ELSE LET banner_text == Upper(Strip(ContentOf(found)))
             IN  [for_lease |-> Contains(banner_text, s_LEASE),
                  for_sale  |-> Contains(banner_text, s_SALE)]

(***************************************************************************)
(* comprehensive_scraper.py, extract_comprehensive_property_data: flags.   *)
(***************************************************************************)
comprehensive_type_flags(node) ==
    LET lease == IF node.banner = NoElement THEN TRUE
                 ELSE Contains(Upper(Strip(ContentOf(node.banner))), s_LEASE)
        sale  == IF node.banner = NoElement THEN FALSE
                 ELSE Contains(Upper(Strip(ContentOf(node.banner))), s_SALE)
    IN  [for_lease |-> IF ~lease /\ ~sale THEN TRUE ELSE lease,
         for_sale  |-> sale]


(***************************************************************************)
(* The scraping run.                                                       *)
(***************************************************************************)
\* Bounds of the model
MaxSitePages == 2
MaxNodes == 2
MaxHeight == 2
MaxPagesArg == 2
MisreportedPages == 11

\* Program constants
MaxScrollAttempts == 10
NumPropertySelectors == 10
NumButtonSelectors == 5
SafetyLimit == 10
NumMainSelectors == 6

\* max_pages=None
NoneArg == -1
\* a pagination label, or an active-page text, that int() rejects
NotANumber == -1

VARIABLES
    \* ---- the extraction machine
    property_element,   \* the listing node handed to the extractor
    impl,               \* which extractor ran on it
    property_data,      \* the record it returned
    \* ---- the site and the caller (environment of a run)
    program,            \* "scraper" (scraper.py) or "complete" (complete_scraper.py)
    max_pages,          \* argument of scrape_all_pages
    buttons,            \* per pagination selector, the labels of the controls it finds
    nodeCounts,         \* the node counts a listing-container query may return
    clickModes,         \* what a click on a pagination control may do
    heights,            \* the values document.body.scrollHeight may take
    flaky,              \* whether browser operations may raise WebDriverException
    frames,             \* the iframes of the top document (their src attributes)
    totals,             \* the results-summary node: found, readable, its count
    active,             \* the live active-page indicator (NotANumber: unreadable)
    \* ---- the run
    pc,                 \* position in the program
    failed,             \* an exception is propagating out of the run
    driver,             \* self.driver / driver is set
    sessionOpen,        \* the browser session exists and was not quit
    inFrame,            \* the driver's scope is the embedded frame
    total_pages,        \* pagination_info['total_pages']
    total_listings,     \* pagination_info['total_listings']
    page_count,         \* loop iterations begun (pages visited)
    max_pages_to_scrape,
    current_page,       \* navigate_to_next_page's current_page / main's counter
    settleRet,          \* who called wait_for_page_load
    scroll_attempts,
    last_height,
    last_scroll,        \* the last window.scrollTo of the settle under way
    sel,                \* index of the selector being tried by the resolver
    used_selector,      \* index of the selector that matched (0: none)
    property_elements,  \* the nodes the resolver returned
    idx,                \* extraction loop index
    page_properties,    \* records of the page being processed
    all_properties,     \* records accumulated by the run
    scraped_properties, \* self.scraped_properties
    result,             \* what the run returned
    file,               \* the output file: NoElement, or Found(its characters)
    \* ---- observers (history of the run, not read by the program)
    clicks,             \* clicks issued on pagination controls
    navLog,             \* outcome of each advance, in order
    firstHit,           \* first selector whose query returned nodes (0: none yet)
    hitCount            \* how many nodes that query returned

xvars == <<property_element, impl, property_data>>

sitevars == <<program, max_pages, buttons, nodeCounts, clickModes, heights,
              flaky, frames, totals>>

sessionvars == <<driver, sessionOpen, inFrame>>

loopvars == <<total_pages, total_listings, page_count, max_pages_to_scrape>>

settlevars == <<settleRet, scroll_attempts, last_height, last_scroll>>

resolvevars == <<sel, used_selector, property_elements, idx, page_properties,
                 firstHit, hitCount>>

outvars == <<all_properties, scraped_properties, result, file>>

obsvars == <<clicks, navLog>>

vars == <<xvars, sitevars, active, pc, failed, sessionvars, loopvars,
          current_page, settlevars, resolvevars, outvars, obsvars>>

Max(S) == CHOOSE x \in S : \A y \in S : y <= x

\* Python's `a or b` on an optional integer: None and 0 are both falsy
PyOr(a, b) == IF a = NoneArg \/ a = 0 THEN b ELSE a

\* scraper.py get_current_page_number, when the read itself does not fail:
\* the indicator's integer, 1 when it is absent or not an integer
get_current_page_number == IF active = NotANumber THEN 1 ELSE active

\* the labels int() accepts
page_numbers(ls) == {l \in ls : l # NotANumber}

\* scraper.py get_total_results_info, lines 591-616: the first button selector
\* whose controls carry at least one integer label gives max(page_numbers);
\* total_pages stays 1 when none does
RECURSIVE total_pages_from(_, _)
total_pages_from(bs, i) ==
    IF i > Len(bs) THEN 1
    ELSE IF page_numbers(bs[i]) # {} THEN Max(page_numbers(bs[i]))
    ELSE total_pages_from(bs, i + 1)

total_pages_of(bs) == total_pages_from(bs, 1)

\* a bound that takes max_pages = 0 for a bound of zero pages
pages_to_scrape_zero(mp, tp) == IF mp = NoneArg THEN tp ELSE mp

\* scraper.py line 704
pages_to_scrape(mp, tp) == PyOr(mp, tp)

\* navigate_to_next_page taking any control with an integer label for the next
\* page's control
has_any_button(bs, cur) == page_numbers(bs[1]) # {}

\* scraper.py navigate_to_next_page: is there a .js-paginate-btn control whose
\* label is the integer current_page + 1
has_next_button(bs, cur) == (cur + 1) \in page_numbers(bs[1])

\* the nodes a listing-container query returned: (selector index, position)
Nodes(s, k) == [i \in 1..k |-> <<s, i>>]

\* get_current_page_properties taking the nodes in reverse document order
Record_backwards(i) == [page_number |-> get_current_page_number,
                        iter |-> page_count,
                        index |-> Len(property_elements) - i + 1]

\* the record get_current_page_properties appends for the i-th node
Record(i) == [page_number |-> get_current_page_number,
              iter |-> page_count, index |-> i]

\* close_driver without the call of quit
close_driver_skipped(d, open) == open

\* scraper.py close_driver: quit the session when self.driver is set
close_driver(d, open) == IF d THEN FALSE ELSE open

\* what the indicator may show after a click on the control labelled target
ClickOutcomes(target) ==
    {a \in {target, active, NotANumber} :
        \/ a = target /\ "advance" \in clickModes
        \/ a = active /\ "stall" \in clickModes
        \/ a = NotANumber /\ "lost" \in clickModes}

(***************************************************************************)
(* scraper.py: wait_for_page_load, scroll_page, wait_for_loading_to_complete*)
(***************************************************************************)
\* the call: control enters wait_for_page_load, to come back at ret
CallSettle(ret) ==
    /\ pc' = "wl_body"
    /\ settleRet' = ret
    /\ scroll_attempts' = 0
    /\ last_height' = 0
    /\ last_scroll' = "none"

\* line 98: wait.until(body present)
wait_body ==
    /\ pc = "wl_body"
    /\ \/ /\ pc' = "wl_poll1"
          /\ UNCHANGED <<failed, page_properties, navLog>>
       \/ \* TimeoutException: logged at line 139, the function returns
          /\ flaky
          /\ pc' = settleRet
          /\ UNCHANGED <<failed, page_properties, navLog>>
       \/ \* any other WebDriverException leaves wait_for_page_load
          /\ flaky
          /\ settleRet = "totals"
          /\ pc' = "except"
          /\ UNCHANGED <<failed, page_properties, navLog>>
       \/ \* caught at line 526: get_current_page_properties returns []
          /\ flaky
          /\ settleRet = "resolve"
          /\ pc' = "extend"
          /\ UNCHANGED <<failed, page_properties, navLog>>
       \/ \* caught at line 667: navigate_to_next_page returns False
          /\ flaky
          /\ settleRet = "nav_verify"
          /\ pc' = "finish"
          /\ navLog' = Append(navLog, "error")
          /\ UNCHANGED <<failed, page_properties>>
    /\ UNCHANGED <<xvars, sitevars, active, sessionvars, loopvars, current_page,
                   settlevars, sel, used_selector, property_elements, idx,
                   firstHit, hitCount, outvars, clicks>>

\* lines 105 and 111: wait_for_loading_to_complete never raises
wait_for_loading_to_complete ==
    /\ \/ pc = "wl_poll1" /\ pc' = "sp_init"
       \/ pc = "wl_poll2" /\ pc' = "wl_probe"
    /\ UNCHANGED <<xvars, sitevars, active, failed, sessionvars, loopvars,
                   current_page, settlevars, resolvevars, outvars, obsvars>>

\* line 207: the initial height
scroll_init ==
    /\ pc = "sp_init"
    /\ \/ \E h \in heights :
             /\ last_height' = h
             /\ scroll_attempts' = 0
             /\ pc' = "sp_loop"
       \/ \* line 255: any failure ends scroll_page
          /\ flaky
          /\ pc' = "wl_poll2"
          /\ UNCHANGED <<last_height, scroll_attempts>>
    /\ UNCHANGED <<xvars, sitevars, active, failed, sessionvars, loopvars,
                   current_page, settleRet, last_scroll, resolvevars, outvars,
                   obsvars>>

\* the loop's body without line 231 (scroll_attempts += 1)
scroll_body_uncounted(h) ==
    IF h = last_height
    THEN /\ pc' = "sp_top1"
         /\ UNCHANGED <<last_height, scroll_attempts>>
    ELSE /\ last_height' = h
         /\ UNCHANGED scroll_attempts
         /\ pc' = "sp_loop"

\* one pass of the while loop's body: scroll to bottom, measure, compare
scroll_body(h) ==
    IF h = last_height
    THEN /\ pc' = "sp_top1"
         /\ UNCHANGED <<last_height, scroll_attempts>>
    ELSE /\ last_height' = h
         /\ scroll_attempts' = scroll_attempts + 1
         /\ pc' = "sp_loop"

\* lines 213-231: the scroll to the bottom, the measure, the comparison
scroll_loop ==
    /\ pc = "sp_loop"
    /\ \/ /\ scroll_attempts < MaxScrollAttempts
          /\ \E h \in heights : scroll_body(h)
          /\ last_scroll' = "bottom"
       \/ /\ ~(scroll_attempts < MaxScrollAttempts)
          /\ pc' = "sp_top1"
          /\ UNCHANGED <<last_height, scroll_attempts, last_scroll>>
       \/ \* line 255: the scroll or the measure after it raises
          /\ flaky
          /\ scroll_attempts < MaxScrollAttempts
          /\ pc' = "wl_poll2"
          /\ last_scroll' \in {last_scroll, "bottom"}
          /\ UNCHANGED <<last_height, scroll_attempts>>
    /\ UNCHANGED <<xvars, sitevars, active, failed, sessionvars, loopvars,
                   current_page, settleRet, resolvevars, outvars, obsvars>>

\* lines 234-251: back to top, the step-wise pass, back to top; line 255: a
\* call that raises ends scroll_page where it stands
scroll_rest ==
    /\ \/ pc = "sp_top1" /\ pc' = "sp_steps" /\ last_scroll' = "top"
       \/ pc = "sp_steps" /\ pc' = "sp_top2" /\ last_scroll' = "step"
       \/ pc = "sp_top2" /\ pc' = "wl_poll2" /\ last_scroll' = "top"
       \/ /\ pc \in {"sp_top1", "sp_steps", "sp_top2"}
          /\ flaky
          /\ pc' = "wl_poll2"
          /\ last_scroll' \in {last_scroll}
                                \cup (IF pc = "sp_steps" THEN {"step"} ELSE {})
    /\ UNCHANGED <<xvars, sitevars, active, failed, sessionvars, loopvars,
                   current_page, settleRet, scroll_attempts, last_height,
                   resolvevars, outvars, obsvars>>

\* lines 116-136: the selector probe (failures swallowed), then return
wait_return ==
    /\ pc = "wl_probe"
    /\ pc' = settleRet
    /\ last_scroll' = "none"
    /\ UNCHANGED <<xvars, sitevars, active, failed, sessionvars, loopvars,
                   current_page, settleRet, scroll_attempts, last_height,
                   resolvevars, outvars, obsvars>>

(***************************************************************************)
(* scraper.py: scrape_all_pages and what it calls.                         *)
(***************************************************************************)
\* line 685: setup_driver
setup_driver ==
    /\ program = "scraper"
    /\ pc = "start"
    /\ \/ /\ driver' = TRUE
          /\ sessionOpen' = TRUE
          /\ pc' = "get"
       \/ \* webdriver.Chrome raised: no session, self.driver stays None
          /\ flaky
          /\ pc' = "except"
          /\ UNCHANGED <<driver, sessionOpen>>
       \/ \* set_page_load_timeout raised after the session was created
          /\ flaky
          /\ driver' = TRUE
          /\ sessionOpen' = TRUE
          /\ pc' = "except"
    /\ UNCHANGED <<xvars, sitevars, active, failed, inFrame, loopvars,
                   current_page, settlevars, resolvevars, outvars, obsvars>>

\* lines 690-697: driver.get(url), then wait_for_page_load
load_url ==
    /\ program = "scraper"
    /\ pc = "get"
    /\ \/ CallSettle("totals")
       \/ /\ flaky
          /\ pc' = "except"
          /\ UNCHANGED settlevars
    /\ UNCHANGED <<xvars, sitevars, active, failed, sessionvars, loopvars,
                   current_page, resolvevars, outvars, obsvars>>

\* lines 567-588: the results-summary sub-read: the count of the "out of N
\* listings" phrase, 0 when the node is absent or the phrase does not parse
total_listings_of(t) == IF t.node /\ t.text # NotANumber THEN t.text ELSE 0

\* lines 700-704: what get_total_results_info returned, page_count = 0, the
\* page bound
compute_bound(tl, tp) ==
    /\ total_listings' = tl
    /\ total_pages' = tp
    /\ page_count' = 0
    /\ max_pages_to_scrape' = pages_to_scrape(max_pages, tp)
    /\ pc' = "loop"

\* lines 539-621: the three sub-reads inside one try; NoSuchElementException
\* and ValueError are handled per sub-read, anything else raised by the range
\* or the summary sub-read is caught at line 618, after which info is
\* returned as it stands
get_total_results_info ==
    /\ pc = "totals"
    /\ LET \* lines 590-616 when the queries of the selectors in F raise
           \* (swallowed by the bare except of line 615, the next is tried)
           total_pages_without(bs, F) ==
               total_pages_from([i \in 1..Len(bs)
                                    |-> IF i \in F THEN {} ELSE bs[i]], 1)
       IN
       \/ /\ ~(totals.node /\ totals.stale)
          /\ compute_bound(total_listings_of(totals), total_pages_of(buttons))
       \/ \* reading the summary node's text raises (line 577)
          /\ totals.node /\ totals.stale
          /\ compute_bound(0, 1)
       \/ \* the range sub-read raises (lines 559-560)
          /\ flaky
          /\ compute_bound(0, 1)
       \/ \* queries of the button sub-read raise (line 600)
          /\ flaky
          /\ ~(totals.node /\ totals.stale)
          /\ \E F \in SUBSET (1..NumButtonSelectors) :
                compute_bound(total_listings_of(totals),
                              total_pages_without(buttons, F))
    /\ UNCHANGED <<xvars, sitevars, active, failed, sessionvars, current_page,
                   settlevars, resolvevars, outvars, obsvars>>

\* lines 706-713: the loop test, page_count += 1, the page number for the
\* log, and the call of get_current_page_properties (its locals, its settle)
loop_enter ==
    /\ pc = "loop"
    /\ page_count < max_pages_to_scrape
    /\ page_count' = page_count + 1
    /\ \/ /\ CallSettle("resolve")
          /\ sel' = 1
          /\ used_selector' = 0
          /\ property_elements' = <<>>
          /\ idx' = 1
          /\ page_properties' = <<>>
          /\ firstHit' = 0
          /\ hitCount' = 0
       \/ \* line 708: get_current_page_number raises outside its except clause
          /\ flaky
          /\ pc' = "except"
          /\ UNCHANGED <<settlevars, resolvevars>>
    /\ UNCHANGED <<xvars, sitevars, active, failed, sessionvars, total_pages,
                   total_listings,
                   max_pages_to_scrape, current_page, outvars, obsvars>>

\* line 706: the loop test fails
loop_exit ==
    /\ pc = "loop"
    /\ ~(page_count < max_pages_to_scrape)
    /\ pc' = "finish"
    /\ UNCHANGED <<xvars, sitevars, active, failed, sessionvars, loopvars,
                   current_page, settlevars, resolvevars, outvars, obsvars>>

\* a resolver that collects the nodes of every selector (no break at line 500)
resolver_take_merging(s, k) ==
    /\ property_elements' = property_elements \o Nodes(s, k)
    /\ used_selector' = s
    /\ sel' = sel + 1
    /\ pc' = IF sel = NumPropertySelectors THEN "extract" ELSE pc

\* the resolver took the nodes of selector s
resolver_take(s, k) ==
    /\ property_elements' = Nodes(s, k)
    /\ used_selector' = s
    /\ pc' = "extract"
    /\ UNCHANGED sel

\* the resolver goes on to the next selector
resolver_continue ==
    /\ sel' = sel + 1
    /\ UNCHANGED <<property_elements, used_selector, pc>>

\* lines 493-503: one selector of property_selectors is evaluated
resolve_selector ==
    /\ pc = "resolve"
    /\ sel <= NumPropertySelectors
    /\ \/ \E k \in nodeCounts :
             /\ k > 0
             /\ resolver_take(sel, k)
             /\ firstHit' = IF firstHit = 0 THEN sel ELSE firstHit
             /\ hitCount' = IF firstHit = 0 THEN k ELSE hitCount
       \/ \* find_elements returned no element
          /\ 0 \in nodeCounts
          /\ resolver_continue
          /\ UNCHANGED <<firstHit, hitCount>>
       \/ \* find_elements raised: logged at line 502, next selector
          /\ flaky
          /\ resolver_continue
          /\ UNCHANGED <<firstHit, hitCount>>
    /\ UNCHANGED <<xvars, sitevars, active, failed, sessionvars, loopvars,
                   current_page, settlevars, idx, page_properties, outvars,
                   obsvars>>

\* lines 505-507: no selector matched, the page's list is returned empty
resolve_none ==
    /\ pc = "resolve"
    /\ sel > NumPropertySelectors
    /\ pc' = "extend"
    /\ UNCHANGED <<xvars, sitevars, active, failed, sessionvars, loopvars,
                   current_page, settlevars, resolvevars, outvars, obsvars>>

\* lines 511-524: one listing node is extracted, stamped and appended
extract_node ==
    /\ pc = "extract"
    /\ idx <= Len(property_elements)
    /\ \/ /\ page_properties' = Append(page_properties, Record(idx))
          /\ idx' = idx + 1
          /\ UNCHANGED pc
       \/ \* line 522 raises: caught at line 526, the list so far is returned
          /\ flaky
          /\ pc' = "extend"
          /\ UNCHANGED <<page_properties, idx>>
    /\ UNCHANGED <<xvars, sitevars, active, failed, sessionvars, loopvars,
                   current_page, settlevars, sel, used_selector,
                   property_elements, firstHit, hitCount, outvars, obsvars>>

\* line 529: every node was processed
extract_done ==
    /\ pc = "extract"
    /\ idx > Len(property_elements)
    /\ pc' = "extend"
    /\ UNCHANGED <<xvars, sitevars, active, failed, sessionvars, loopvars,
                   current_page, settlevars, resolvevars, outvars, obsvars>>

\* line 714: all_properties.extend(page_properties)
extend_all ==
    /\ pc = "extend"
    /\ all_properties' = all_properties \o page_properties
    /\ pc' = "nav_find"
    /\ sel' = 0
    /\ used_selector' = 0
    /\ property_elements' = <<>>
    /\ idx' = 0
    /\ page_properties' = <<>>
    /\ firstHit' = 0
    /\ hitCount' = 0
    /\ UNCHANGED <<xvars, sitevars, active, failed, sessionvars, loopvars,
                   current_page, settlevars, scraped_properties, result,
                   obsvars, file>>

\* navigate_to_next_page's False ignored by the caller (no break at line 725)
advance_ignored(why) ==
    /\ navLog' = Append(navLog, why)
    /\ pc' = "loop"

\* navigate_to_next_page returns False
advance_fails(why) ==
    /\ navLog' = Append(navLog, why)
    /\ pc' = "finish"

\* lines 631-647 and 663-665: read the page number, look for its successor
find_next_button ==
    /\ pc = "nav_find"
    /\ \/ /\ has_next_button(buttons, get_current_page_number)
          /\ current_page' = get_current_page_number
          /\ pc' = "nav_click"
          /\ UNCHANGED navLog
       \/ /\ ~has_next_button(buttons, get_current_page_number)
          /\ current_page' = get_current_page_number
          /\ advance_fails("none")
       \/ \* a read raised: caught at line 667
          /\ flaky
          /\ advance_fails("error")
          /\ UNCHANGED current_page
    /\ UNCHANGED <<xvars, sitevars, active, failed, sessionvars, loopvars,
                   settlevars, resolvevars, outvars, clicks>>

\* lines 649-653: the click, then wait_for_page_load
click_next ==
    /\ pc = "nav_click"
    /\ \/ /\ \E a \in ClickOutcomes(current_page + 1) : active' = a
          /\ clicks' = clicks + 1
          /\ CallSettle("nav_verify")
          /\ UNCHANGED navLog
       \/ /\ flaky
          /\ advance_fails("error")
          /\ UNCHANGED <<active, clicks, settlevars>>
    /\ UNCHANGED <<xvars, sitevars, failed, sessionvars, loopvars,
                   current_page, resolvevars, outvars>>

\* the re-read compared with >= : a page that did not change counts as reached
verify_lenient(new_page) ==
    IF new_page >= current_page
    THEN /\ navLog' = Append(navLog, IF new_page > current_page THEN "ok" ELSE "stall")
         /\ pc' = "loop"
    ELSE advance_fails("stall")

\* what navigate_to_next_page answers after the re-read (lines 656-662)
verify(new_page) ==
    IF new_page > current_page
    THEN /\ navLog' = Append(navLog, "ok")
         /\ pc' = "loop"
    ELSE advance_fails("stall")

\* lines 655-662 and 720-725
verify_page ==
    /\ pc = "nav_verify"
    /\ \/ verify(get_current_page_number)
       \/ flaky /\ advance_fails("error")
    /\ UNCHANGED <<xvars, sitevars, active, failed, sessionvars, loopvars,
                   current_page, settlevars, resolvevars, outvars, clicks>>

\* lines 727-728: the loop is over, the records are kept on the object
finish ==
    /\ pc = "finish"
    /\ scraped_properties' = all_properties
    /\ pc' = "finally"
    /\ UNCHANGED <<xvars, sitevars, active, failed, sessionvars, loopvars,
                   current_page, settlevars, resolvevars, all_properties,
                   result, obsvars, file>>

\* a handler that keeps the records gathered so far on the object
except_assigning ==
    /\ pc = "except"
    /\ failed' = TRUE
    /\ scraped_properties' = all_properties
    /\ pc' = "finally"
    /\ UNCHANGED <<xvars, sitevars, active, sessionvars, loopvars,
                   current_page, settlevars, resolvevars, all_properties,
                   result, file, obsvars>>

\* lines 730-732: log and re-raise
except ==
    /\ pc = "except"
    /\ failed' = TRUE
    /\ pc' = "finally"
    /\ UNCHANGED <<xvars, sitevars, active, sessionvars, loopvars,
                   current_page, settlevars, resolvevars, outvars, obsvars>>

\* lines 733-736: close_driver, then return all_properties or re-raise
finally ==
    /\ program = "scraper"
    /\ pc = "finally"
    /\ sessionOpen' = close_driver(driver, sessionOpen)
    /\ IF failed
       THEN pc' = "raised" /\ UNCHANGED result
       ELSE pc' = "returned" /\ result' = all_properties
    /\ UNCHANGED <<xvars, sitevars, active, failed, driver, inFrame, loopvars,
                   current_page, settlevars, resolvevars, all_properties,
                   scraped_properties, obsvars, file>>

(***************************************************************************)
(* scraper.py: save_to_json.  The file is a sequence of characters: the    *)
(* metadata count, then the records between brackets, each the decimal     *)
(* digits of its fields between braces.                                    *)
(***************************************************************************)
Digits == <<"0", "1", "2", "3", "4", "5", "6", "7", "8", "9">>

\* json's text of a non-negative integer
RECURSIVE encode_int(_)
encode_int(n) ==
    IF n < 10 THEN <<Digits[n + 1]>>
    ELSE encode_int(n \div 10) \o <<Digits[(n % 10) + 1]>>

\* json's text of one record
encode_record(r) ==
    <<"{">> \o encode_int(r.page_number) \o <<",">> \o encode_int(r.iter)
            \o <<",">> \o encode_int(r.index) \o <<"}">>

\* json's text of a list of records
encode_records(rs) ==
    <<"[">> \o Concat([i \in 1..Len(rs) |-> encode_record(rs[i])]) \o <<"]">>

\* lines 745-759: {"metadata": {total_properties: N}, "properties": [...]}
json_dump(rs) == encode_int(Len(rs)) \o encode_records(rs)

\* json.load, from position i on: num and fields are the integer and the
\* record being read, recs the records read
RECURSIVE parse(_, _, _, _, _)
parse(cs, i, num, fields, recs) ==
    IF i > Len(cs) \/ cs[i] = "]" THEN recs
    ELSE IF cs[i] = "{" THEN parse(cs, i + 1, 0, <<>>, recs)
    ELSE IF cs[i] = "," THEN parse(cs, i + 1, 0, Append(fields, num), recs)
    ELSE IF cs[i] = "}"
    THEN LET f == Append(fields, num)
         IN  parse(cs, i + 1, 0, <<>>,
                   Append(recs, [page_number |-> f[1], iter |-> f[2], index |-> f[3]]))
    ELSE LET d == CHOOSE v \in 0..9 : Digits[v + 1] = cs[i]
         IN  parse(cs, i + 1, num * 10 + d, fields, recs)

\* the "properties" list of a file written by save_to_json
json_load(cs) ==
    LET open == CHOOSE i \in 1..Len(cs) : cs[i] = "["
    IN  parse(cs, open + 1, 0, <<>>, <<>>)

\* scraper.py main, lines 784-787, and a caller that saves a second time:
\* save_to_json writes self.scraped_properties, or nothing when it is empty
save_to_json ==
    /\ program = "scraper"
    /\ pc \in {"returned", "saved"}
    /\ file' = IF scraped_properties = <<>> THEN file
               ELSE Found(json_dump(scraped_properties))
    /\ pc' = IF pc = "returned" THEN "saved" ELSE "saved_again"
    /\ UNCHANGED <<xvars, sitevars, active, failed, sessionvars, loopvars,
                   current_page, settlevars, resolvevars, all_properties,
                   scraped_properties, result, obsvars>>

(***************************************************************************)
(* complete_scraper.py: main.                                              *)
(***************************************************************************)
\* the tokens a frame's src attribute is tested for
HostToken == "buildout.com"
InventoryToken == "inventory"

\* lines 239-243: the first iframe whose src holds both tokens (0: none).
\* A frame is NoElement (no src attribute) or Found(the tokens in its src).
is_buildout(frame) ==
    /\ frame # NoElement
    /\ HostToken \in ContentOf(frame)
    /\ InventoryToken \in ContentOf(frame)

buildout_iframe(fs) ==
    IF \E i \in 1..Len(fs) : is_buildout(fs[i])
    THEN CHOOSE i \in 1..Len(fs) :
            /\ is_buildout(fs[i])
            /\ \A j \in 1..(i - 1) : ~is_buildout(fs[j])
    ELSE 0

\* find_pagination_buttons: the controls of the first selector that finds any
RECURSIVE first_buttons(_, _)
first_buttons(bs, i) ==
    IF i > Len(bs) THEN {}
    ELSE IF bs[i] # {} THEN bs[i]
    ELSE first_buttons(bs, i + 1)

\* get_next_page_button: a control whose text is the digits of current_page + 1
main_next_button(bs, cur) == (cur + 1) \in page_numbers(first_buttons(bs, 1))

\* the records main appends for the items a selector found; keep holds the
\* positions for which extract_property_data returned a record (not None)
RECURSIVE main_records(_, _, _)
main_records(i, k, keep) ==
    IF i > k THEN <<>>
    ELSE (IF i \in keep
          THEN <<[page_number |-> 0, iter |-> page_count, index |-> i]>>
          ELSE <<>>) \o main_records(i + 1, k, keep)

\* lines 209-216: the driver is created
main_setup ==
    /\ program = "complete"
    /\ pc = "start"
    /\ \/ /\ driver' = TRUE
          /\ sessionOpen' = TRUE
          /\ pc' = "m_get"
       \/ /\ flaky
          /\ pc' = "m_except"
          /\ UNCHANGED <<driver, sessionOpen>>
    /\ UNCHANGED <<xvars, sitevars, active, failed, inFrame, loopvars,
                   current_page, settlevars, resolvevars, outvars, obsvars>>

\* lines 220-232: get, sleep, one scroll to the bottom
main_get ==
    /\ pc = "m_get"
    /\ \/ pc' = "m_frame"
       \/ flaky /\ pc' = "m_except"
    /\ UNCHANGED <<xvars, sitevars, active, failed, sessionvars, loopvars,
                   current_page, settlevars, resolvevars, outvars, obsvars>>

\* lines 236-256: find the buildout iframe and switch to it, or return 1
main_frame ==
    /\ pc = "m_frame"
    /\ \/ /\ buildout_iframe(frames) # 0
          /\ inFrame' = TRUE
          /\ current_page' = 1
          /\ pc' = "m_loop"
          /\ UNCHANGED failed
       \/ \* lines 245-247: return 1, through the finally clause
          /\ buildout_iframe(frames) = 0
          /\ failed' = TRUE
          /\ pc' = "finally"
          /\ UNCHANGED <<inFrame, current_page>>
       \/ /\ flaky
          /\ pc' = "m_except"
          /\ UNCHANGED <<inFrame, current_page, failed>>
    /\ UNCHANGED <<xvars, sitevars, active, driver, sessionOpen, loopvars,
                   settlevars, resolvevars, outvars, obsvars>>

\* line 258: the loop test; lines 263-276: a page begins
main_loop_enter ==
    /\ pc = "m_loop"
    /\ current_page <= SafetyLimit
    /\ page_count' = page_count + 1
    /\ sel' = 1
    /\ page_properties' = <<>>
    /\ pc' = "m_resolve"
    /\ UNCHANGED <<xvars, sitevars, active, failed, sessionvars, total_pages,
                   total_listings,
                   max_pages_to_scrape, current_page, settlevars,
                   used_selector, property_elements, idx, firstHit, hitCount,
                   outvars, obsvars>>

\* line 258: the loop test fails
main_loop_exit ==
    /\ pc = "m_loop"
    /\ ~(current_page <= SafetyLimit)
    /\ pc' = "m_after"
    /\ UNCHANGED <<xvars, sitevars, active, failed, sessionvars, loopvars,
                   current_page, settlevars, resolvevars, outvars, obsvars>>

\* lines 278-294: one selector is evaluated and, when it finds items, every
\* item is extracted at once
main_resolve ==
    /\ pc = "m_resolve"
    /\ sel <= NumMainSelectors
    /\ \/ \E k \in nodeCounts :
             /\ k > 0
             /\ \E keep \in (IF flaky THEN SUBSET (1..k) ELSE {1..k}) :
                   page_properties' = main_records(1, k, keep)
             /\ used_selector' = sel
             /\ property_elements' = Nodes(sel, k)
             /\ firstHit' = IF firstHit = 0 THEN sel ELSE firstHit
             /\ hitCount' = IF firstHit = 0 THEN k ELSE hitCount
             /\ pc' = "m_extend"
             /\ UNCHANGED sel
       \/ /\ 0 \in nodeCounts
          /\ sel' = sel + 1
          /\ UNCHANGED <<page_properties, used_selector, property_elements,
                         firstHit, hitCount, pc>>
       \/ /\ flaky
          /\ sel' = sel + 1
          /\ UNCHANGED <<page_properties, used_selector, property_elements,
                         firstHit, hitCount, pc>>
    /\ UNCHANGED <<xvars, sitevars, active, failed, sessionvars, loopvars,
                   current_page, settlevars, idx, outvars, obsvars>>

\* lines 296-298: no selector found items, the loop is left
main_resolve_none ==
    /\ pc = "m_resolve"
    /\ sel > NumMainSelectors
    /\ pc' = "m_after"
    /\ UNCHANGED <<xvars, sitevars, active, failed, sessionvars, loopvars,
                   current_page, settlevars, resolvevars, outvars, obsvars>>

\* line 301: all_properties.extend(page_properties)
main_extend ==
    /\ pc = "m_extend"
    /\ all_properties' = all_properties \o page_properties
    /\ pc' = "m_next"
    /\ sel' = 0
    /\ used_selector' = 0
    /\ property_elements' = <<>>
    /\ page_properties' = <<>>
    /\ firstHit' = 0
    /\ hitCount' = 0
    /\ UNCHANGED <<xvars, sitevars, active, failed, sessionvars, loopvars,
                   current_page, settlevars, idx, scraped_properties, result,
                   obsvars, file>>

\* lines 306-319: the next page's control is looked up and clicked
main_next ==
    /\ pc = "m_next"
    /\ \/ /\ main_next_button(buttons, current_page)
          /\ \E a \in ClickOutcomes(current_page + 1) : active' = a
          /\ clicks' = clicks + 1
          /\ current_page' = current_page + 1
          /\ navLog' = Append(navLog, "ok")
          /\ pc' = "m_loop"
       \/ \* lines 314-316: the click raised
          /\ main_next_button(buttons, current_page)
          /\ flaky
          /\ navLog' = Append(navLog, "error")
          /\ pc' = "m_after"
          /\ UNCHANGED <<active, clicks, current_page>>
       \/ \* lines 317-319: no control carries current_page + 1
          /\ \/ ~main_next_button(buttons, current_page)
             \/ flaky
          /\ navLog' = Append(navLog, "none")
          /\ pc' = "m_after"
          /\ UNCHANGED <<active, clicks, current_page>>
    /\ UNCHANGED <<xvars, sitevars, failed, sessionvars, loopvars,
                   settlevars, resolvevars, outvars>>

\* lines 322-348: back to the top document, the records are written
main_after ==
    /\ pc = "m_after"
    /\ \/ /\ inFrame' = FALSE
          /\ result' = all_properties
          /\ file' = IF all_properties = <<>> THEN file
                     ELSE Found(encode_records(all_properties))
          /\ pc' = "finally"
       \/ /\ flaky
          /\ pc' = "m_except"
          /\ UNCHANGED <<inFrame, result, file>>
    /\ UNCHANGED <<xvars, sitevars, active, failed, driver, sessionOpen,
                   loopvars, current_page, settlevars, resolvevars,
                   all_properties, scraped_properties, obsvars>>

\* lines 350-352: the error is printed, main returns 1
main_except ==
    /\ pc = "m_except"
    /\ failed' = TRUE
    /\ pc' = "finally"
    /\ UNCHANGED <<xvars, sitevars, active, sessionvars, loopvars,
                   current_page, settlevars, resolvevars, outvars, obsvars>>

\* lines 354-359: the driver is quit when it was created; main returns
main_finally ==
    /\ program = "complete"
    /\ pc = "finally"
    /\ sessionOpen' = close_driver(driver, sessionOpen)
    /\ pc' = IF failed THEN "exit1" ELSE "exit0"
    /\ UNCHANGED <<xvars, sitevars, active, failed, driver, inFrame, loopvars,
                   current_page, settlevars, resolvevars, outvars, obsvars>>

(***************************************************************************)
(* The extraction machine: one listing node, one extractor, one record.    *)
(***************************************************************************)
\* Bounds of the inputs
MaxBannerTokens == 3
MaxRows == 2
MaxFragments == 2

\* Input texts
t_FOR == <<"F","O","R"," ">>
t_lease == <<"l","e","a","s","e">>
t_SOLD == <<"S","O","L","D">>
t_SLASH == <<" ","/"," ">>
t_Both == <<"B","o","t","h">>
t_AvailableSpace == <<"A","v","a","i","l","a","b","l","e"," ","S","p","a","c","e">>
t_5000SF == <<"5",",","0","0","0"," ","S","F">>
t_Price == <<"P","r","i","c","e">>
t_Rate == <<"$","1","0"," ","/"," ","S","F">>
t_NumSpaces == <<"#"," ","o","f"," ","S","p","a","c","e","s">>
t_Three == <<"3">>
t_BuildingSize == <<"B","u","i","l","d","i","n","g"," ","S","i","z","e">>
t_20000 == <<"2","0",",","0","0","0">>
t_Available == <<"A","v","a","i","l","a","b","l","e">>
t_Now == <<"N","o","w">>
t_Notes == <<"N","o","t","e","s">>
t_10000SF == <<"1","0",",","0","0","0"," ","S","F">>
t_CallAgent == <<"C","a","l","l"," ","A","g","e","n","t">>
t_2Spaces == <<"2"," ","S","p","a","c","e","s">>
t_Bldg4 == <<"B","l","d","g"," ","4">>
t_Office == <<"O","f","f","i","c","e">>
t_Athens == <<"A","t","h","e","n","s",","," ","G","A">>
t_PaddedDash == <<" ","-"," ">>
t_FORSALE == <<"F","O","R"," ","S","A","L","E">>

\* the pieces banner texts are made of
BannerTokens == {t_FOR, s_LEASE, s_SALE, t_SLASH, t_lease, t_Both, t_SOLD}

\* every banner text of at most MaxBannerTokens pieces ("" included)
BannerTexts == {Concat(ts) : ts \in SeqsUpTo(BannerTokens, MaxBannerTokens)}

\* rows of the details table: key and value cells, and a one-cell row
TableRows == {<<t_AvailableSpace, t_5000SF>>, <<t_Price, t_Rate>>,
              <<t_NumSpaces, t_Three>>, <<t_BuildingSize, t_20000>>,
              <<t_Available, t_Now>>, <<t_Notes>>}

\* texts of .secondary-information elements
Fragments == {t_10000SF, t_CallAgent, t_2Spaces, t_Bldg4, t_Office, t_Athens,
              t_PaddedDash, t_Rate}

\* nodes that differ in their banners
TypeNodes ==
    [banner : {NoElement} \cup {Found(b) : b \in BannerTexts},
     altBanner : {NoElement, Found(t_FORSALE)},
     table : {NoElement},
     secondary : {<<>>},
     anchor : {NoElement},
     title : {NoElement},
     failing : {"none"}]

\* nodes that differ in their details table and secondary information
DetailNodes ==
    [banner : {NoElement},
     altBanner : {NoElement},
     table : {NoElement} \cup {Found(rows) : rows \in SeqsUpTo(TableRows, MaxRows)},
     secondary : SeqsUpTo(Fragments, MaxFragments),
     anchor : {NoElement},
     title : {NoElement},
     failing : {"none"}]

\* the link target and the title text of a listing
t_href == <<"/", "p", "?", "i", "d", "=", "7">>
t_title == <<" ", "1", "2", " ", "E", "l", "m", " ">>

\* nodes that differ in their anchor and title, and in where the browser fails
FieldNodes ==
    [banner : {NoElement, Found(t_FORSALE)},
     altBanner : {NoElement},
     table : {NoElement, Found(<<<<t_Price, t_Rate>>>>)},
     secondary : {<<>>, <<t_2Spaces>>},
     anchor : {NoElement, Found(t_href)},
     title : {NoElement, Found(t_title)},
     failing : {"none"} \cup {Sections[i] : i \in 1..Len(Sections)}]

\* the state of the part of the model that is not running
IdleNode == [banner |-> NoElement, altBanner |-> NoElement,
             table |-> NoElement, secondary |-> <<>>,
             anchor |-> NoElement, title |-> NoElement, failing |-> "none"]

IdleData == [for_lease |-> FALSE, for_sale |-> FALSE]

ExtractIdle ==
    /\ property_element = IdleNode
    /\ impl = "none"
    /\ property_data = IdleData

\* a site without a results-summary node
NoSummary == [node |-> FALSE, stale |-> FALSE, text |-> NotANumber]

\* the run's variables before the run starts
RunStart ==
    /\ pc = "start"
    /\ failed = FALSE
    /\ driver = FALSE
    /\ sessionOpen = FALSE
    /\ inFrame = FALSE
    /\ total_pages = 0
    /\ total_listings = 0
    /\ page_count = 0
    /\ max_pages_to_scrape = 0
    /\ current_page = 0
    /\ settleRet = "none"
    /\ scroll_attempts = 0
    /\ last_height = 0
    /\ last_scroll = "none"
    /\ sel = 0
    /\ used_selector = 0
    /\ property_elements = <<>>
    /\ idx = 0
    /\ page_properties = <<>>
    /\ all_properties = <<>>
    /\ scraped_properties = <<>>
    /\ result = <<>>
    /\ file = NoElement
    /\ clicks = 0
    /\ navLog = <<>>
    /\ firstHit = 0
    /\ hitCount = 0

\* scraper.py extract_property_details on the node
extract_scraper ==
    /\ impl = "none"
    /\ impl' = "scraper"
    /\ property_data' = extract_property_details(property_element)
    /\ UNCHANGED <<property_element, sitevars, active, pc, failed, sessionvars,
                   loopvars, current_page, settlevars, resolvevars, outvars,
                   obsvars>>

\* complete_scraper.py extract_property_data on the node (its flags)
extract_complete ==
    /\ impl = "none"
    /\ impl' = "complete"
    /\ property_data' = complete_type_flags(property_element)
    /\ UNCHANGED <<property_element, sitevars, active, pc, failed, sessionvars,
                   loopvars, current_page, settlevars, resolvevars, outvars,
                   obsvars>>

\* comprehensive_scraper.py extract_comprehensive_property_data (its flags)
extract_comprehensive ==
    /\ impl = "none"
    /\ impl' = "comprehensive"
    /\ property_data' = comprehensive_type_flags(property_element)
    /\ UNCHANGED <<property_element, sitevars, active, pc, failed, sessionvars,
                   loopvars, current_page, settlevars, resolvevars, outvars,
                   obsvars>>

ExtractInit ==
    /\ property_element \in TypeNodes \cup DetailNodes \cup FieldNodes
    /\ impl = "none"
    /\ property_data = IdleData
    /\ program = "none"
    /\ max_pages = NoneArg
    /\ buttons = <<{}, {}, {}, {}, {}>>
    /\ nodeCounts = {}
    /\ clickModes = {}
    /\ heights = {}
    /\ flaky = FALSE
    /\ frames = <<>>
    /\ totals = NoSummary
    /\ active = NotANumber
    /\ RunStart

ExtractNext == extract_scraper \/ extract_complete \/ extract_comprehensive

ExtractSpec == ExtractInit /\ [][ExtractNext]_vars

(***************************************************************************)
(* The sites and callers a run is checked against.                         *)
(***************************************************************************)
\* bound on the iframes of the top document
MaxFrames == 2

\* src attributes: none, and every combination of the two tokens
FrameKinds == {NoElement} \cup {Found(ts) : ts \in SUBSET {HostToken, InventoryToken}}

\* the controls of the fallback selectors, when .js-paginate-btn has no number
NoFallback == [i \in 1..(NumButtonSelectors - 1) |-> {}]

ButtonSets ==
    {<<ls>> \o NoFallback : ls \in SUBSET ((0..MaxSitePages) \cup {NotANumber})}
    \cup {<<ls, {}, {NotANumber}, {MaxSitePages}, {}>> : ls \in {{}, {NotANumber}}}

\* the pagination control of a site with MaxSitePages pages
AllPages == <<1..MaxSitePages>> \o NoFallback

\* the frame main looks for
BuildoutFrame == Found({HostToken, InventoryToken})

\* scraper.py against sites that differ in their pagination controls, in what
\* a click does and in how many nodes a query returns; the page height is
\* stable
PagingSite ==
    /\ program = "scraper"
    /\ max_pages \in {NoneArg} \cup (0..MaxPagesArg)
    /\ buttons \in ButtonSets
    /\ nodeCounts = 0..MaxNodes
    /\ clickModes = {"advance", "stall", "lost"}
    /\ heights = {1}
    /\ flaky \in BOOLEAN
    /\ frames = <<>>
    /\ totals = NoSummary
    /\ active \in {1, NotANumber}

\* scraper.py against a site whose page height keeps changing under scrolling
ScrollingSite ==
    /\ program = "scraper"
    /\ max_pages = NoneArg
    /\ buttons = AllPages
    /\ nodeCounts = {1}
    /\ clickModes = {"advance", "stall"}
    /\ heights = 1..MaxHeight
    /\ flaky \in BOOLEAN
    /\ frames = <<>>
    /\ totals = NoSummary
    /\ active = 1

\* complete_scraper.py against top documents that differ in their iframes
FramedSite ==
    /\ program = "complete"
    /\ max_pages = NoneArg
    /\ buttons = AllPages
    /\ nodeCounts = {1}
    /\ clickModes = {"advance"}
    /\ heights = {1}
    /\ flaky \in BOOLEAN
    /\ frames \in SeqsUpTo(FrameKinds, MaxFrames)
    /\ totals = NoSummary
    /\ active = 1

\* complete_scraper.py, the frame found, against sites that differ in their
\* pagination controls and in how many nodes a query returns
MainSite ==
    /\ program = "complete"
    /\ max_pages = NoneArg
    /\ buttons \in ButtonSets
    /\ nodeCounts = 0..MaxNodes
    /\ clickModes = {"advance", "stall"}
    /\ heights = {1}
    /\ flaky \in BOOLEAN
    /\ frames = <<BuildoutFrame>>
    /\ totals = NoSummary
    /\ active = 1

\* a site whose pagination control reports MisreportedPages pages, every
\* click advancing, one listing per page, no browser failure
MisreportingSite ==
    /\ program \in {"scraper", "complete"}
    /\ max_pages = NoneArg
    /\ buttons = <<1..MisreportedPages>> \o NoFallback
    /\ nodeCounts = {1}
    /\ clickModes = {"advance"}
    /\ heights = {1}
    /\ flaky = FALSE
    /\ frames = <<BuildoutFrame>>
    /\ totals = NoSummary
    /\ active = 1

\* scraper.py against sites that differ in their results-summary node: absent,
\* or found with a text that cannot be read, that lacks a count, or that
\* carries one
SummarySite ==
    /\ program = "scraper"
    /\ max_pages = NoneArg
    /\ buttons = AllPages
    /\ nodeCounts = {1}
    /\ clickModes = {"advance"}
    /\ heights = {1}
    /\ flaky \in BOOLEAN
    /\ frames = <<>>
    /\ totals \in {NoSummary}
                    \cup [node : {TRUE}, stale : BOOLEAN,
                          text : {NotANumber} \cup (0..MaxNodes)]
    /\ active = 1

Init ==
    /\ ExtractIdle
    /\ RunStart
    /\ \/ PagingSite
       \/ ScrollingSite
       \/ FramedSite
       \/ MainSite
       \/ MisreportingSite
       \/ SummarySite

Next ==
    \/ setup_driver
    \/ load_url
    \/ wait_body
    \/ wait_for_loading_to_complete
    \/ scroll_init
    \/ scroll_loop
    \/ scroll_rest
    \/ wait_return
    \/ get_total_results_info
    \/ loop_enter
    \/ loop_exit
    \/ resolve_selector
    \/ resolve_none
    \/ extract_node
    \/ extract_done
    \/ extend_all
    \/ find_next_button
    \/ click_next
    \/ verify_page
    \/ finish
    \/ except
    \/ finally
    \/ save_to_json
    \/ main_setup
    \/ main_get
    \/ main_frame
    \/ main_loop_enter
    \/ main_loop_exit
    \/ main_resolve
    \/ main_resolve_none
    \/ main_extend
    \/ main_next
    \/ main_after
    \/ main_except
    \/ main_finally

Spec == Init /\ [][Next]_vars


\* the scheduler runs the program whenever it has a step to take
FairSpec == Init /\ [][Next]_vars /\ WF_vars(Next)

\* where a run has ended: scrape_all_pages returned or raised, main returned
Terminal == {"returned", "raised", "exit0", "exit1"}

(***************************************************************************)
(* Properties.                                                             *)
(***************************************************************************)
\* the last answer of navigate_to_next_page ("" before the first)
LastAdvance == IF navLog = <<>> THEN "" ELSE navLog[Len(navLog)]

\* C2: every run of scrape_all_pages eventually returns its result or raises,
\* whatever the site does; the page loop and the scroll loop do not run forever
C2_Terminates == (program = "scraper") => <>(pc \in {"returned", "raised"})

\* C2: a run that returned after more than one page, whose last scroll loop
\* was stopped by max_scroll_attempts
C2_Witness ==
    /\ program = "scraper"
    /\ pc = "returned"
    /\ page_count > 1
    /\ scroll_attempts = MaxScrollAttempts


\* C1: without max_pages the number of pages scrape_all_pages visits never
\* exceeds the fixed safety ceiling, whatever total the pagination control
\* reports
C1_SafetyCeiling ==
    (program = "scraper" /\ max_pages = NoneArg) => page_count <= SafetyLimit

\* C3: no run ends with the session it opened still open: at every return and
\* at every raise the session has been closed
C3_SessionClosed == pc \in Terminal => ~sessionOpen

\* C3: scrape_all_pages raised after its session was opened, and closed it
C3_Witness ==
    /\ program = "scraper"
    /\ pc = "raised"
    /\ driver
    /\ ~sessionOpen

\* C4: when the page number re-read after the click is not greater than the
\* one read before it, navigate_to_next_page answers False, the page loop
\* stops there without another click or page, and the run returns all the
\* records accumulated
C4_StallSafety ==
    /\ [][(program = "scraper" /\ pc = "nav_verify"
              /\ ~(get_current_page_number > current_page))
            => /\ pc' = "finish"
               /\ LastAdvance' \in {"stall", "error"}]_vars
    /\ [][(program = "scraper" /\ LastAdvance = "stall")
            => /\ clicks' = clicks
               /\ page_count' = page_count
               /\ all_properties' = all_properties
               /\ pc' \in {"finally", "returned", "saved", "saved_again"}]_vars
    /\ [](program = "scraper" /\ LastAdvance = "stall"
            => /\ pc \in {"finish", "finally", "returned", "saved",
                       "saved_again"}
               /\ ~failed
               /\ clicks = Len(navLog)
               /\ (pc = "returned" => result = all_properties))

\* C4: a run returned its records after its one click left the page number
\* unchanged, the page bound allowing another page
C4_Witness ==
    /\ program = "scraper"
    /\ pc = "returned"
    /\ navLog = <<"stall">>
    /\ clicks = 1
    /\ page_count < max_pages_to_scrape
    /\ Len(result) > 0

\* C5: when the first call of navigate_to_next_page finds no control labelled
\* current page + 1, exactly one page is visited, nothing is clicked and the
\* records returned are the records of that page
C5_NoFurtherPages ==
    (program = "scraper" /\ navLog = <<"none">>)
        => /\ page_count = 1
           /\ clicks = 0
           /\ pc \in {"finish", "finally", "returned", "saved",
                       "saved_again"}
           /\ ~failed
           /\ \A i \in 1..Len(all_properties) : all_properties[i].iter = 1
           /\ (pc = "returned" => result = all_properties)

\* C5: a run returned the records of its only page, the bound allowing more
C5_Witness ==
    /\ program = "scraper"
    /\ pc = "returned"
    /\ navLog = <<"none">>
    /\ max_pages_to_scrape > 1
    /\ Len(result) > 0

\* C6: no listing is extracted outside the frame whose src holds both tokens,
\* and a run that found no such frame fails without a page and closes its
\* session
C6_FramePrecondition ==
    /\ pc \in {"extract", "m_resolve", "m_extend"} => inFrame
    /\ (pc \in Terminal /\ buildout_iframe(frames) = 0)
          => (failed /\ page_count = 0 /\ ~sessionOpen)

\* C7: the selectors are evaluated in list order, the nodes are those of the
\* first selector with a non-empty result, that selector is the one reported,
\* and no later selector is evaluated or merged in
C7_ResolverOrder ==
    /\ pc \in {"resolve", "m_resolve"} => (firstHit = 0 /\ property_elements = <<>>)
    /\ pc \in {"extract", "m_extend"} => firstHit # 0
    /\ firstHit # 0
          => /\ used_selector = firstHit
             /\ sel = firstHit
             /\ hitCount > 0
             /\ property_elements = Nodes(firstHit, hitCount)

\* C7: the first selector matched nothing, the second two nodes: they are taken
C7_Witness ==
    /\ program = "scraper"
    /\ pc = "extract"
    /\ used_selector = 2
    /\ sel = 2
    /\ property_elements = Nodes(2, 2)


\* the uppercased text of the node's .list-item-banner element
BannerUpper == Upper(ContentOf(property_element.banner))

\* the node has a .list-item-banner element, and it was read
BannerPresent ==
    /\ property_element.banner # NoElement
    /\ property_element.failing = "none"

\* the node's banner is this text and the record's flags are these
BannerGives(text, lease, sale) ==
    property_element.banner = Found(text)
        => (property_data.for_lease = lease /\ property_data.for_sale = sale)

\* C8 as stated: with a banner present, forLease is true exactly when the
\* uppercased banner text contains "LEASE" and forSale exactly when it
\* contains "SALE"
C8_KeywordsOnly ==
    (impl = "scraper" /\ BannerPresent)
        => /\ property_data.for_lease = Contains(BannerUpper, s_LEASE)
           /\ property_data.for_sale = Contains(BannerUpper, s_SALE)

\* C8: with a banner present, scraper.py sets forLease exactly when the
\* uppercased banner text contains "LEASE" or "BOTH" and forSale exactly when
\* it contains "SALE" or "BOTH"; comprehensive_scraper.py sets forSale exactly
\* when it contains "SALE" and forLease exactly when it contains "LEASE" or
\* no "SALE"; "FOR LEASE" gives (true, false), "FOR SALE" (false, true) and
\* "LEASE / SALE" both true
C8_TypeInference ==
    /\ (impl = "scraper" /\ BannerPresent)
          => /\ property_data.for_lease
                    = (Contains(BannerUpper, s_LEASE) \/ Contains(BannerUpper, s_BOTH))
             /\ property_data.for_sale
                    = (Contains(BannerUpper, s_SALE) \/ Contains(BannerUpper, s_BOTH))
    /\ (impl = "comprehensive" /\ BannerPresent)
          => /\ property_data.for_sale = Contains(BannerUpper, s_SALE)
             /\ property_data.for_lease
                    = (Contains(BannerUpper, s_LEASE) \/ ~Contains(BannerUpper, s_SALE))
    /\ (impl \in {"scraper", "comprehensive"} /\ BannerPresent)
          => /\ BannerGives(t_FOR \o s_LEASE, TRUE, FALSE)
             /\ BannerGives(t_FOR \o s_SALE, FALSE, TRUE)
             /\ BannerGives(s_LEASE \o t_SLASH \o s_SALE, TRUE, TRUE)

\* C8: scraper.py extracted a banner that names neither keyword but the
\* combined state, and set both flags
C8_Witness ==
    /\ impl = "scraper"
    /\ property_element.banner = Found(t_FOR \o t_Both)
    /\ property_data.for_lease
    /\ property_data.for_sale

\* C9: a listing whose banner is absent, empty or names neither "LEASE" nor
\* "SALE" gets forLease = true and forSale = false, and no record has both
\* flags false
C9_TypeDefault ==
    (impl \in {"scraper", "complete"} /\ property_element.failing = "none")
        => /\ (/\ property_element.altBanner = NoElement
               /\ \/ property_element.banner = NoElement
                  \/ /\ ~Contains(BannerUpper, s_LEASE)
                     /\ ~Contains(BannerUpper, s_SALE))
                 => (property_data.for_lease /\ ~property_data.for_sale)
           /\ (property_data.for_lease \/ property_data.for_sale)

\* C10: every key the table pass put into details keeps its table value after
\* the heuristic pass over the secondary information
C10_TableOverHeuristic ==
    (impl = "scraper" /\ property_element.failing = "none")
        => \A k \in DOMAIN table_pass(property_element) :
              /\ k \in DOMAIN property_data.details
              /\ property_data.details[k] = table_pass(property_element)[k]


\* the record holds every key the section writes, with the section's values
SectionKept(s) ==
    \A k \in DOMAIN section_fields(property_element, s) :
        /\ k \in DOMAIN property_data
        /\ property_data[k] = section_fields(property_element, s)[k]

\* C11: whatever one section of the extraction misses or fails on, every other
\* section's fields are still extracted; a node without title element but with
\* an anchor gets title "Unknown" and the anchor's href as url
C11_FieldIndependence ==
    impl = "scraper"
        => /\ \A i \in 1..Len(Sections) :
                 Sections[i] # property_element.failing => SectionKept(Sections[i])
           /\ (property_element.title = NoElement /\ property_element.anchor # NoElement)
                 => /\ "title" \in DOMAIN property_data
                    /\ property_data.title = s_Unknown
                    /\ property_data.url = property_element.anchor

\* C12: extract_property_details returns a record for every node; a failure
\* that leaves the outer try is recorded under "error", every section that ran
\* before it keeps its fields, and without such a failure there is no "error"
C12_NeverRaises ==
    impl = "scraper"
        => LET failed_at == CHOOSE i \in 0..Len(Sections) :
                               \/ i = 0 /\ property_element.failing = "none"
                               \/ i > 0 /\ Sections[i] = property_element.failing
           IN  /\ DOMAIN property_data # {}
               /\ ("error" \in DOMAIN property_data) = (failed_at \in 1..(Len(Sections) - 1))
               /\ \A i \in 1..Len(Sections) :
                     (failed_at = 0 \/ i < failed_at) => SectionKept(Sections[i])
               /\ (failed_at \in {0, Len(Sections)}) => "details" \in DOMAIN property_data

\* C12: the node went stale in the title section: the record holds the error,
\* the url and the flags read before it
C12_Witness ==
    /\ impl = "scraper"
    /\ property_element.failing = "title"
    /\ property_element.anchor = Found(t_href)
    /\ property_element.banner = Found(t_FORSALE)
    /\ property_data.error = "title"
    /\ property_data.url = Found(t_href)
    /\ property_data.for_sale


\* C13: when a page's k resolved nodes have been processed, k records have
\* been appended for the page, whichever nodes failed
C13_SiblingNodes ==
    (program = "scraper" /\ pc = "extend")
        => Len(page_properties) = Len(property_elements)

\* the page being visited has given at least one record
PageHasRecords == \E i \in 1..Len(all_properties) : all_properties[i].iter = page_count

\* C14: a page on which no listing-container selector matches ends the page
\* loop: no pagination control is clicked after it (without browser failures
\* a page has no record exactly when no selector matched)
C14_PageExhaustion ==
    [][(program = "scraper" /\ ~flaky /\ clicks' # clicks) => PageHasRecords]_vars

\* C15: the pages visited never exceed the ceiling: max_pages when it is
\* given, else the reported total capped by the safety ceiling
C15_PageCap ==
    program = "scraper"
        => page_count <= (IF max_pages # NoneArg THEN max_pages
                          ELSE IF total_pages < SafetyLimit THEN total_pages
                          ELSE SafetyLimit)

\* C16: a run in which the browser layer failed during an advance does not
\* return a normal result: it raises, and its session is closed
C16_FailurePropagates ==
    (program = "scraper" /\ LastAdvance = "error" /\ pc \in Terminal)
        => (pc = "raised" /\ ~sessionOpen)


\* C17: after save_to_json, once or twice, re-reading the file gives the
\* records the run holds, as many and with the same field values
C17_RoundTrip ==
    (program = "scraper" /\ pc \in {"saved", "saved_again"})
        => /\ file # NoElement
           /\ json_load(ContentOf(file)) = scraped_properties


\* C18: wherever an advance chooses the control to click (scraper.py
\* navigate_to_next_page about to click, complete_scraper.py main about to
\* look up the next control), the page number it uses equals the live
\* active-page indicator as get_current_page_number reads it at that moment,
\* also after a click that left the page unchanged.
C18_LiveIndicator ==
    (pc \in {"nav_click", "m_next"})
        => current_page = get_current_page_number


\* C19: in scraper.py, navigate_to_next_page clicks only when a
\* .js-paginate-btn control carries the integer label equal to the live page
\* number plus one, and each such step is a single click; when no control
\* carries that label (the labels that are not integers included) the call
\* returns False without a click; and no call clicks twice: the clicks never
\* exceed the calls that returned, plus one while a call is past its click.
C19_ClickOnlyNext ==
    [][LET next_label == get_current_page_number + 1
           labelled == next_label \in {l \in buttons[1] : l # NotANumber}
           settling == pc \in {"wl_body", "wl_poll1", "wl_poll2", "wl_probe",
                               "sp_init", "sp_loop", "sp_steps", "sp_top1",
                               "sp_top2"}
           clicked == pc = "nav_verify"
                        \/ (settling /\ settleRet = "nav_verify")
       IN  program = "scraper"
             => /\ clicks' # clicks
                     => /\ pc = "nav_click"
                        /\ labelled
                        /\ clicks' = clicks + 1
                        /\ active' \in {next_label, active, NotANumber}
                /\ (pc = "nav_find" /\ ~labelled)
                     => /\ clicks' = clicks
                        /\ pc' = "finish"
                        /\ ~flaky => navLog' = Append(navLog, "none")
                /\ clicks' <= Len(navLog') + (IF clicked' THEN 1 ELSE 0)]_vars

\* a run of scraper.py that clicked the control labelled 2 from page 1 and, on
\* page 2, found no control labelled 3 among controls that include one whose
\* label is not an integer: it returned after that single click
C19_Witness ==
    /\ program = "scraper"
    /\ pc = "returned"
    /\ NotANumber \in buttons[1]
    /\ navLog = <<"ok", "none">>
    /\ clicks = 1
    /\ active = 2


\* C20: get_current_page_number never raises: the step of scrape_all_pages
\* that reads the page number for the log (line 708, between the loop test
\* and the call of get_current_page_properties) never sends the run to its
\* exception handler, whatever the read of the indicator does.
C20_CurrentPageNeverRaises ==
    [][(program = "scraper" /\ pc = "loop" /\ page_count < max_pages_to_scrape)
            => pc' # "except"]_vars


\* C21: get_total_results_info never raises and defaults each sub-read on its
\* own: when no browser call of the pagination sub-read fails, total_pages is
\* what the pagination controls give (1 when none is readable) whatever
\* happened to the results-summary sub-read, and total_listings is the count
\* of the summary's phrase, 0 when the node is absent, unreadable or without
\* a count.
C21_TotalsIndependent ==
    [][(program = "scraper" /\ pc = "totals" /\ ~flaky)
            => /\ pc' = "loop"
               /\ total_pages' = total_pages_of(buttons)
               /\ total_listings'
                    = (IF totals.node /\ ~totals.stale
                            /\ totals.text # NotANumber
                       THEN totals.text ELSE 0)]_vars


\* C22: wait_for_page_load never raises: whatever fails in the structural
\* wait, the loading-indicator polls or the scrolling, control either goes on
\* to the next step of the settle or comes back to the caller at the point
\* where a completed settle returns.
C22_SettleNeverRaises ==
    [][(program = "scraper"
            /\ pc \in {"wl_body", "wl_poll1", "wl_poll2", "wl_probe", "sp_init",
                       "sp_loop", "sp_steps", "sp_top1", "sp_top2"})
            => pc' \in {"wl_poll1", "wl_poll2", "wl_probe", "sp_init", "sp_loop",
                        "sp_steps", "sp_top1", "sp_top2", settleRet}]_vars


\* C23: the steps of one settle come in the order structural wait, loading
\* poll, scrolling, loading poll, probe; the scroll-to-bottom loop goes round
\* again only after an attempt that measured a new height and was counted,
\* below the ceiling of MaxScrollAttempts; the step-wise pass comes after the
\* loop; and when the settle returns, the last scroll it issued, if it issued
\* one, was a scroll to the top.
C23_SettleOrder ==
    [][program = "scraper"
         => /\ pc = "wl_body" => pc' \in {"wl_poll1", "except", "extend",
                                         "finish", settleRet}
            /\ pc = "wl_poll1" => pc' = "sp_init"
            /\ pc = "sp_init" => pc' \in {"sp_loop", "wl_poll2"}
            /\ (pc = "sp_loop" /\ pc' = "sp_loop")
                 => /\ scroll_attempts < MaxScrollAttempts
                    /\ last_height' # last_height
                    /\ scroll_attempts' = scroll_attempts + 1
            /\ (pc = "sp_loop" /\ pc' = "sp_top1" /\ last_scroll' = "bottom")
                 => /\ last_height' = last_height
                    /\ scroll_attempts' = scroll_attempts
            /\ pc = "sp_loop" => pc' \in {"sp_loop", "sp_top1", "wl_poll2"}
            /\ pc = "sp_top1" => pc' \in {"sp_steps", "wl_poll2"}
            /\ pc = "sp_steps" => pc' \in {"sp_top2", "wl_poll2"}
            /\ pc = "sp_top2" => pc' = "wl_poll2"
            /\ pc = "wl_poll2" => pc' = "wl_probe"
            /\ pc = "wl_probe" => /\ pc' = settleRet
                                  /\ last_scroll \in {"none", "top"}]_vars


\* C24: the location of a record is the trimmed text of the first
\* .secondary-information element, in document order, whose trimmed text is
\* not empty and does not start with "$", "Call" or "Available"; it is
\* "Unknown" only when no element qualifies.
C24_LocationSelection ==
    (impl = "scraper" /\ property_element.failing = "none")
        => LET texts == [i \in 1..Len(property_element.secondary)
                            |-> Strip(property_element.secondary[i])]
               begins(s, n, prefix) == Len(s) >= n /\ SubSeq(s, 1, n) = prefix
               qualifies(s) ==
                   /\ s # <<>>
                   /\ ~begins(s, 1, <<"$">>)
                   /\ ~begins(s, 4, <<"C", "a", "l", "l">>)
                   /\ ~begins(s, 9, <<"A", "v", "a", "i", "l", "a", "b", "l",
                                      "e">>)
               q == {i \in 1..Len(texts) : qualifies(texts[i])}
           IN  property_data.location
                 = (IF q = {} THEN s_Unknown
                    ELSE texts[CHOOSE i \in q : \A j \in q : i <= j])


\* C25: while the fragments of secondary_info are processed in order, a key
\* that the heuristic of an earlier fragment put into details (one the table
\* had not set) keeps that fragment: the record's details hold, for each such
\* key, the value it had when it first appeared.
C25_FirstFragmentWins ==
    (impl = "scraper" /\ property_element.failing = "none")
        => LET infos == secondary_info(property_element)
               table == table_pass(property_element)
               after(i) == heuristic_pass(table, SubSeq(infos, 1, i))
           IN  \A i \in 1..Len(infos) :
                 \A k \in (DOMAIN after(i)) \ (DOMAIN table) :
                    /\ k \in DOMAIN property_data.details
                    /\ property_data.details[k] = after(i)[k]


\* C26: in scraper.py the accumulated records are in page-visit order and,
\* within a page, in the document order of the listing nodes; the records of
\* the page being extracted carry the page number the live indicator shows
\* and the iteration under way; no step removes or reorders a record already
\* accumulated; and the sequence returned is the accumulated one.
C26_RecordOrder ==
    [][program = "scraper"
         => /\ \A i, j \in 1..Len(all_properties') :
                 i < j => LET a == all_properties'[i]
                              b == all_properties'[j]
                          IN  \/ a.iter < b.iter /\ a.page_number < b.page_number
                              \/ /\ a.iter = b.iter
                                 /\ a.page_number = b.page_number
                                 /\ a.index < b.index
            /\ \A i \in 1..Len(page_properties') :
                 /\ page_properties'[i].index = i
                 /\ page_properties'[i].iter = page_count'
                 /\ page_properties'[i].page_number
                      = (IF active' = NotANumber THEN 1 ELSE active')
            /\ Len(all_properties') >= Len(all_properties)
            /\ SubSeq(all_properties', 1, Len(all_properties)) = all_properties
            /\ pc' = "returned" => result' = all_properties']_vars

\* a run that visited two pages, took two nodes from the first and one from
\* the second, and returned the three records after finding no further control
C26_Witness ==
    /\ program = "scraper"
    /\ pc = "returned"
    /\ navLog = <<"ok", "none">>
    /\ Len(result) = 3
    /\ result[1] = [page_number |-> 1, iter |-> 1, index |-> 1]
    /\ result[2] = [page_number |-> 1, iter |-> 1, index |-> 2]
    /\ result[3] = [page_number |-> 2, iter |-> 2, index |-> 1]

\* C27: in a run of scraper.py, navigate_to_next_page lets the loop go on only
\* when the page number read after the click is strictly greater than the
\* one read before it; every iteration after the first begins right after
\* such an advance; and no two iterations extract records of the same page.
C27_ForwardProgress ==
    [][program = "scraper"
         => /\ (pc = "nav_verify" /\ pc' = "loop")
                 => get_current_page_number > current_page
            /\ (page_count' # page_count /\ page_count > 0)
                 => /\ page_count' = page_count + 1
                    /\ LastAdvance = "ok"
                    /\ get_current_page_number > current_page
            /\ \A i, j \in 1..Len(all_properties') :
                 all_properties'[i].iter # all_properties'[j].iter
                    => all_properties'[i].page_number
                         # all_properties'[j].page_number]_vars

\* the second iteration under way after the click from page 1 reached page 2
C27_Witness ==
    /\ program = "scraper"
    /\ pc = "extract"
    /\ page_count = 2
    /\ navLog = <<"ok">>
    /\ current_page = 1
    /\ active = 2
    /\ Len(all_properties) > 0


C29_BoundAtLeastOne ==
    [][program = "scraper"
         => /\ pc = "totals"
                 => /\ total_pages' >= 1
                    /\ max_pages = NoneArg => max_pages_to_scrape' >= 1
            /\ (pc = "loop" /\ page_count = 0 /\ max_pages = NoneArg)
                 => page_count' = 1]_vars


\* C30: self.scraped_properties is assigned only where the page loop of
\* scrape_all_pages has ended without an exception, and then to the records
\* accumulated; a run that raises leaves it as it was before the run (empty),
\* returns nothing and leaves nothing for save_to_json to write.
C30_AssignedOnSuccess ==
    [][program = "scraper"
         => /\ scraped_properties' # scraped_properties
                 => /\ pc = "finish"
                    /\ ~failed
                    /\ scraped_properties' = all_properties
            /\ pc' = "raised" => /\ scraped_properties' = <<>>
                                 /\ result' = <<>>
                                 /\ file' = NoElement
            /\ pc = "raised" => pc' = "raised"]_vars

\* a run that had gathered the records of its first page when reading the
\* page number for the second iteration raised: the records are lost
C30_Witness ==
    /\ program = "scraper"
    /\ pc = "raised"
    /\ page_count = 2
    /\ Len(all_properties) = 2
    /\ scraped_properties = <<>>
    /\ result = <<>>

=============================================================================
